---- MODULE Spec2Model ----
(***************************************************************************)
(* A model of the user counter service (src/user_counter_service.py):      *)
(* the SQLite activity table, the UserTracker operations that run on it    *)
(* under the global db_lock, and the Flask handlers that call them from    *)
(* concurrent request threads.                                             *)
(***************************************************************************)
EXTENDS Integers, Sequences, FiniteSets, TLC

(***************************************************************************)
(* Bounds of the model.                                                    *)
(***************************************************************************)
NumClients == 1      \* client tokens that come back in a cookie
MaxReqs == 2         \* requests the server receives, each served by a thread of its own
MaxTicks == 2        \* times the wall clock advances
TicksPerDay == 2     \* instants the model tells apart within one day
MaxRestarts == 1     \* process restarts after a failed start-up
MaxCalls == 3        \* calls the example client makes, one after the other
Today0 == 100        \* day number of the calendar day the process starts on

(***************************************************************************)
(* Program constants.                                                      *)
(***************************************************************************)
MonthDays == 30            \* timedelta(days=30) in get_active_users
WeekDays == 7              \* timedelta(days=7) in get_user_stats
DefaultDaysToKeep == 90    \* days_to_keep=90

Main == 0
Workers == 1 .. MaxReqs
NoThread == -1

\* SQL NULL / Python None is no text value: texts are one-element tuples.
NULL == <<>>
Text(s) == <<s>>

Clock0 == Today0 * TicksPerDay + (TicksPerDay - 1)

\* datetime.date(): the calendar day of an instant.
DateOf(t) == t \div TicksPerDay
\* the first instant of a day
At(day) == day * TicksPerDay

Max2(a, b) == IF a >= b THEN a ELSE b

RECURSIVE MaxRowId(_)
MaxRowId(rs) == IF rs = <<>> THEN 0 ELSE Max2(Head(rs).id, MaxRowId(Tail(rs)))

IndexNames == <<"idx_client_id", "idx_date", "idx_timestamp", "idx_server">>
IndexSet(k) == {IndexNames[i] : i \in 1 .. k}

(***************************************************************************)
(* The database file.  schema is the shape of table user_activity: "none"  *)
(* (no such table), "old" (without the server column) or "new"; rows are   *)
(* its rows in rowid order and seq its sqlite_sequence entry.  new_* is    *)
(* the table user_activity_new of the migration.                           *)
(***************************************************************************)
EmptyDb ==
    [schema |-> "none", rows |-> <<>>, seq |-> 0,
     new_exists |-> FALSE, new_rows |-> <<>>, new_seq |-> 0,
     indexes |-> {}]

OldRow(i, c, d) == [id |-> i, client_id |-> c, timestamp |-> At(d), date_only |-> d]
NewRow(i, c, s, d) ==
    [id |-> i, client_id |-> c, server |-> s, timestamp |-> At(d), date_only |-> d]

OldDb(rs, sq) ==
    [EmptyDb EXCEPT !.schema = "old", !.rows = rs, !.seq = sq, !.indexes = IndexSet(3)]
NewDb(rs, sq) ==
    [EmptyDb EXCEPT !.schema = "new", !.rows = rs, !.seq = sq, !.indexes = IndexSet(4)]

\* Database files the process may find when it starts.
\* a table of the service before the server column, with ids 2 and 5 deleted
OldPopulated ==
    OldDb(<<OldRow(1, 1, Today0 - 1), OldRow(3, 1, Today0), OldRow(4, 11, Today0)>>, 5)

\* a migrated table: one client today, and one client each at 7, 30, 31, 90
\* and 91 days before Today0
NewPopulated ==
    NewDb(<<NewRow(1, 14, Text("s1"), Today0 - DefaultDaysToKeep - 1),
            NewRow(2, 13, NULL, Today0 - DefaultDaysToKeep),
            NewRow(3, 12, Text("s1"), Today0 - MonthDays - 1),
            NewRow(4, 11, NULL, Today0 - MonthDays),
            NewRow(5, 15, NULL, Today0 - WeekDays),
            NewRow(6, 1, Text("s1"), Today0)>>, 7)

InitialDatabases == {EmptyDb, OldPopulated, NewPopulated}

VARIABLES
    db,        \* the database as the open connection sees it
    journal,   \* <<image>> of db at BEGIN while a transaction is open, else <<>>
    lock,      \* holder of db_lock, or NoThread
    clock,     \* the wall clock, datetime.now()
    pc,        \* position of the main thread and of each request thread
    req,       \* the request a thread is handling
    now,       \* the instant track_user_activity read
    today,     \* the date get_active_users / cleanup_old_data read
    out,       \* what the last tracker call of the thread returned
    stats,     \* what get_user_stats returned to the /stats handler
    entry,     \* <<image>> of db when the lock holder entered get_db, else <<>>
    orig,      \* the database file the first start-up found
    nreq,      \* requests accepted so far
    restarts,  \* restarts so far
    calls      \* the calls the example client has made: the token and day of each

vars == <<db, journal, lock, clock, pc, req, now, today, out, stats, entry, orig,
          nreq, restarts, calls>>

NoReq == [kind |-> "none"]
NoOut == [op |-> "none"]

Init ==
    /\ db \in InitialDatabases
    /\ orig = db
    /\ journal = <<>>
    /\ lock = NoThread
    /\ clock = Clock0
    /\ pc = [t \in {Main} \cup Workers |-> IF t = Main THEN "init_database" ELSE "idle"]
    /\ req = [t \in Workers |-> NoReq]
    /\ now = [t \in Workers |-> Clock0]
    /\ today = [t \in Workers |-> DateOf(Clock0)]
    /\ out = [t \in {Main} \cup Workers |-> NoOut]
    /\ stats = [t \in Workers |-> NoOut]
    /\ entry = <<>>
    /\ nreq = 0
    /\ restarts = 0
    /\ calls = <<>>

(***************************************************************************)
(* get_db: the lock, the connection, commit / rollback, close.             *)
(***************************************************************************)
\* get_db that opens its connection without taking db_lock first
AcquireUnlocked(t) ==
    /\ lock' = t
    /\ entry' = <<db>>

\* with db_lock: sqlite3.connect(...)
Acquire(t) ==
    /\ lock = NoThread
    /\ lock' = t
    /\ entry' = <<db>>

\* yield returned: conn.commit(); conn.close(); the lock is released
CommitAndRelease ==
    /\ journal' = <<>>
    /\ lock' = NoThread
    /\ entry' = <<>>

\* the block raised: conn.rollback(); conn.close(); the lock is released
RolledBack == IF journal = <<>> THEN db ELSE journal[1]

\* the sqlite3 module opens a transaction before INSERT / UPDATE / DELETE
Begin == IF journal = <<>> THEN <<db>> ELSE journal

(***************************************************************************)
(* UserTracker.init_database and _migrate_database, statement by           *)
(* statement.  No statement of init_database is an INSERT, UPDATE or       *)
(* DELETE run through execute(), so the sqlite3 module opens no            *)
(* transaction: CREATE TABLE runs in autocommit mode, and executescript()  *)
(* commits whatever is pending and then runs each statement of its script  *)
(* in its own implicit transaction.                                        *)
(***************************************************************************)
InitSteps ==
    {"create_table", "table_info", "m_create", "m_copy", "m_drop", "m_rename",
     "m_index", "create_indexes", "init_commit"}

Goto(t, p) == pc' = [pc EXCEPT ![t] = p]

\* with self.get_db() as conn:
InitEnter ==
    /\ pc[Main] = "init_database"
    /\ Acquire(Main)
    /\ Goto(Main, "create_table")
    /\ UNCHANGED <<db, journal, clock, req, now, today, out, stats, orig, nreq, restarts, calls>>

\* a start-up that drops the table and creates it anew
CreateTableAnew(d) == [d EXCEPT !.schema = "old", !.rows = <<>>, !.seq = 0]

\* CREATE TABLE IF NOT EXISTS user_activity (id, client_id, timestamp, date_only)
CreateTableIfNotExists(d) ==
    IF d.schema = "none" THEN [d EXCEPT !.schema = "old", !.rows = <<>>, !.seq = 0] ELSE d

InitCreateTable ==
    /\ pc[Main] = "create_table"
    /\ db' = CreateTableIfNotExists(db)
    /\ Goto(Main, "table_info")
    /\ UNCHANGED <<journal, lock, clock, req, now, today, out, stats, entry, orig, nreq, restarts, calls>>

\* PRAGMA table_info(user_activity); if 'server' not in columns
MigrateTableInfo ==
    /\ pc[Main] = "table_info"
    /\ Goto(Main, IF db.schema = "new" THEN "create_indexes" ELSE "m_create")
    /\ UNCHANGED <<db, journal, lock, clock, req, now, today, out, stats, entry, orig, nreq, restarts, calls>>

\* the block raised: get_db rolls back, closes, releases the lock, and the
\* exception leaves UserTracker(): the process does not start
InitRaise(d, cause) ==
    /\ db' = d
    /\ journal' = <<>>
    /\ lock' = NoThread
    /\ entry' = <<>>
    /\ Goto(Main, "exited")
    /\ out' = [out EXCEPT ![Main] = [op |-> "init_database", error |-> cause]]
    /\ UNCHANGED <<clock, req, now, today, stats, orig, nreq, restarts, calls>>

InitStep(d, p) ==
    /\ db' = d
    /\ Goto(Main, p)
    /\ UNCHANGED <<journal, lock, clock, req, now, today, out, stats, entry, orig, nreq, restarts, calls>>

\* CREATE TABLE user_activity_new (..., UNIQUE(client_id, date_only, server))
MigrateCreateNew ==
    /\ pc[Main] = "m_create"
    /\ IF db.new_exists
       THEN InitRaise(db, "table user_activity_new already exists")
       ELSE InitStep([db EXCEPT !.new_exists = TRUE, !.new_rows = <<>>, !.new_seq = 0],
                     "m_copy")

\* SELECT id, client_id, NULL, timestamp, date_only FROM user_activity
CopyRow(r) ==
    [id |-> r.id, client_id |-> r.client_id, server |-> NULL,
     timestamp |-> r.timestamp, date_only |-> r.date_only]

CopyRows(rs) == [i \in 1 .. Len(rs) |-> CopyRow(rs[i])]

\* INSERT INTO user_activity_new (id, ...) SELECT ...: the explicit ids move
\* the new table's sqlite_sequence entry to the largest of them
MigrateCopy ==
    /\ pc[Main] = "m_copy"
    /\ InitStep([db EXCEPT !.new_rows = CopyRows(db.rows),
                           !.new_seq = MaxRowId(db.rows)], "m_drop")

\* DROP TABLE user_activity: its rows, indexes and sqlite_sequence entry go
MigrateDrop ==
    /\ pc[Main] = "m_drop"
    /\ InitStep([db EXCEPT !.schema = "none", !.rows = <<>>, !.seq = 0, !.indexes = {}],
                "m_rename")

\* ALTER TABLE user_activity_new RENAME TO user_activity
MigrateRename ==
    /\ pc[Main] = "m_rename"
    /\ InitStep([db EXCEPT !.schema = "new", !.rows = db.new_rows, !.seq = db.new_seq,
                           !.new_exists = FALSE, !.new_rows = <<>>, !.new_seq = 0],
                "m_index")

\* CREATE INDEX idx_client_id ...; idx_date; idx_timestamp; idx_server: the
\* script stops at the first statement that fails, the earlier ones stay
MigrateIndexes ==
    /\ pc[Main] = "m_index"
    /\ \/ /\ db.indexes = {}
          /\ InitStep([db EXCEPT !.indexes = IndexSet(4)], "create_indexes")
       \/ \E k \in 0 .. 3 :
             InitRaise([db EXCEPT !.indexes = @ \cup IndexSet(k)], "storage error")

\* CREATE INDEX IF NOT EXISTS ... x 4 (executescript)
InitCreateIndexes ==
    /\ pc[Main] = "create_indexes"
    /\ \/ InitStep([db EXCEPT !.indexes = @ \cup IndexSet(4)], "init_commit")
       \/ \E k \in 0 .. 3 :
             InitRaise([db EXCEPT !.indexes = @ \cup IndexSet(k)], "storage error")

\* conn.commit(); conn.close(); lock released; tracker = UserTracker() is done
InitCommit ==
    /\ pc[Main] = "init_commit"
    /\ CommitAndRelease
    /\ Goto(Main, "running")
    /\ out' = [out EXCEPT ![Main] = [op |-> "init_database", error |-> "none"]]
    /\ UNCHANGED <<db, clock, req, now, today, stats, orig, nreq, restarts, calls>>

\* a statement of init_database raises sqlite3.Error (I/O error, disk full, ...)
InitStatementFails ==
    /\ pc[Main] \in {"create_table", "table_info", "m_create", "m_copy", "m_drop", "m_rename"}
    /\ InitRaise(RolledBack, "storage error")

\* the process is killed during init_database
InitCrash ==
    /\ pc[Main] \in InitSteps
    /\ InitRaise(RolledBack, "killed")

\* the service, stopped or exited, is started again on the same database file
Restart ==
    /\ pc[Main] \in {"exited", "running"}
    /\ restarts < MaxRestarts
    /\ restarts' = restarts + 1
    /\ Goto(Main, "init_database")
    /\ UNCHANGED <<db, journal, lock, clock, req, now, today, out, stats, entry, orig, nreq, calls>>

(***************************************************************************)
(* SQL statements of the tracker, as SQLite runs them.                     *)
(***************************************************************************)
\* = of SQL: never true of a NULL operand.  UNIQUE(client_id, date_only,
\* server) compares its columns this way.
SqlEq(a, b) == a # NULL /\ b # NULL /\ a = b

\* IS of SQL: NULL IS NULL holds.
SqlIs(a, b) == a = b

\* the key of the table before the server column: UNIQUE(client_id, date_only)
UniqueConflictNoServer(rs, c, s, d) ==
    \E i \in 1 .. Len(rs) :
        /\ rs[i].client_id = c
        /\ rs[i].date_only = d

UniqueConflict(rs, c, s, d) ==
    \E i \in 1 .. Len(rs) :
        /\ rs[i].client_id = c
        /\ rs[i].date_only = d
        /\ SqlEq(rs[i].server, s)

\* AUTOINCREMENT: one more than the largest rowid the table ever held
NextId(d) == Max2(d.seq, MaxRowId(d.rows)) + 1

\* INSERT OR IGNORE INTO user_activity (client_id, server, timestamp, date_only)
InsertOrIgnore(d, c, s, ts, day) ==
    IF UniqueConflict(d.rows, c, s, day)
    THEN d
    ELSE [d EXCEPT !.rows = Append(@, [id |-> NextId(d), client_id |-> c, server |-> s,
                                       timestamp |-> ts, date_only |-> day]),
                   !.seq = NextId(d)]

\* an UPDATE that leaves the server out of its WHERE
UpdateMatchesAnyServer(r, c, day, s) ==
    r.client_id = c /\ r.date_only = day

UpdateMatches(r, c, day, s) ==
    r.client_id = c /\ r.date_only = day /\ SqlIs(r.server, s)

\* UPDATE user_activity SET timestamp = ? WHERE client_id = ? AND date_only = ?
\* AND server IS ?
UpdateTimestamp(d, c, day, s, ts) ==
    [d EXCEPT !.rows = [i \in 1 .. Len(@) |->
                           IF UpdateMatches(@[i], c, day, s)
                           THEN [@[i] EXCEPT !.timestamp = ts]
                           ELSE @[i]]]

\* a cutoff that includes its own day
DeleteMatchesInclusive(r, cutoff) == r.date_only <= cutoff

\* WHERE date_only < ?
DeleteMatches(r, cutoff) == r.date_only < cutoff

RECURSIVE KeepRows(_, _)
KeepRows(rs, cutoff) ==
    IF rs = <<>> THEN <<>>
    ELSE IF DeleteMatches(Head(rs), cutoff) THEN KeepRows(Tail(rs), cutoff)
    ELSE <<Head(rs)>> \o KeepRows(Tail(rs), cutoff)

\* DELETE FROM user_activity WHERE date_only < ?
DeleteOlderThan(d, cutoff) == [d EXCEPT !.rows = KeepRows(@, cutoff)]

\* WHERE date_only = ?
RECURSIVE RowsOn(_, _)
RowsOn(rs, day) ==
    IF rs = <<>> THEN <<>>
    ELSE IF Head(rs).date_only = day THEN <<Head(rs)>> \o RowsOn(Tail(rs), day)
    ELSE RowsOn(Tail(rs), day)

\* WHERE date_only >= ?
RECURSIVE RowsSince(_, _)
RowsSince(rs, day) ==
    IF rs = <<>> THEN <<>>
    ELSE IF Head(rs).date_only >= day THEN <<Head(rs)>> \o RowsSince(Tail(rs), day)
    ELSE RowsSince(Tail(rs), day)

\* COUNT(client_id), without DISTINCT
CountRows(rs) == Len(rs)

\* COUNT(DISTINCT client_id)
RECURSIVE CountDistinct(_)
CountDistinct(rs) ==
    IF rs = <<>> THEN 0
    ELSE (IF \E i \in 2 .. Len(rs) : rs[i].client_id = Head(rs).client_id THEN 0 ELSE 1)
         + CountDistinct(Tail(rs))

\* WHERE server IS <the group's key>
RECURSIVE RowsOfServer(_, _)
RowsOfServer(rs, s) ==
    IF rs = <<>> THEN <<>>
    ELSE IF SqlIs(Head(rs).server, s) THEN <<Head(rs)>> \o RowsOfServer(Tail(rs), s)
    ELSE RowsOfServer(Tail(rs), s)

\* SELECT server, COUNT(DISTINCT client_id) ... GROUP BY server
GroupByServer(rs) ==
    {[server |-> s, count |-> CountDistinct(RowsOfServer(rs, s))] :
        s \in {rs[i].server : i \in 1 .. Len(rs)}}

\* ORDER BY count DESC: every order of the groups that descends by count
\* (SQL leaves the order of equal counts open)
RECURSIVE OrderByCountDesc(_)
OrderByCountDesc(G) ==
    IF G = {} THEN {<<>>}
    ELSE UNION {{<<g>> \o q : q \in OrderByCountDesc(G \ {g})} :
                   g \in {h \in G : \A k \in G : h.count >= k.count}}

\* row['server'] if row['server'] else 'unknown'
ServerLabel(s) == IF s = NULL \/ s = Text("") THEN "unknown" ELSE s[1]

ByServer(q) == [i \in 1 .. Len(q) |-> [server |-> ServerLabel(q[i].server), users |-> q[i].count]]

\* COUNT(*) in place of COUNT(DISTINCT client_id)
DailyRowCount(rs, day) == Len(RowsOn(rs, day))

\* the four SELECTs of get_active_users, for one order of the groups
DailyCount(rs, day) == CountDistinct(RowsOn(rs, day))
\* a window that is one day too long
MonthAgoOneMore(day) == day - MonthDays - 1

\* month_ago = today - timedelta(days=30)
MonthAgo(day) == day - MonthDays
MonthlyCount(rs, day) == CountDistinct(RowsSince(rs, MonthAgo(day)))

ActiveUsersResults(rs, day) ==
    {[op |-> "get_active_users", ok |-> TRUE,
      daily_active_users |-> DailyCount(rs, day),
      monthly_active_users |-> MonthlyCount(rs, day),
      daily_by_server |-> ByServer(dq),
      monthly_by_server |-> ByServer(mq)] :
        dq \in OrderByCountDesc(GroupByServer(RowsOn(rs, day))),
        mq \in OrderByCountDesc(GroupByServer(RowsSince(rs, MonthAgo(day))))}

\* an error result that marks the counts as unavailable
ActiveUsersUnavailable ==
    [op |-> "get_active_users", ok |-> FALSE,
     daily_active_users |-> -1, monthly_active_users |-> -1,
     daily_by_server |-> <<>>, monthly_by_server |-> <<>>]

\* except sqlite3.Error: the all-zero result
ActiveUsersZero ==
    [op |-> "get_active_users", ok |-> FALSE,
     daily_active_users |-> 0, monthly_active_users |-> 0,
     daily_by_server |-> <<>>, monthly_by_server |-> <<>>]

\* SELECT date_only, COUNT(DISTINCT client_id) ... WHERE date_only >= ?
\* GROUP BY date_only ORDER BY date_only DESC
WeekAgo(day) == day - WeekDays

RECURSIVE DailyStats(_, _)
DailyStats(rs, D) ==
    IF D = {} THEN <<>>
    ELSE LET m == CHOOSE x \in D : \A y \in D : x >= y
         IN  <<[date |-> m, users |-> CountDistinct(RowsOn(rs, m))]>>
             \o DailyStats(rs, D \ {m})

UserStats(rs, day) ==
    LET since == RowsSince(rs, WeekAgo(day))
    IN  [op |-> "get_user_stats", ok |-> TRUE,
         total_unique_users |-> CountDistinct(rs),
         daily_breakdown |-> DailyStats(since, {since[i].date_only : i \in 1 .. Len(since)})]

UserStatsZero ==
    [op |-> "get_user_stats", ok |-> FALSE, total_unique_users |-> 0,
     daily_breakdown |-> <<>>]

(***************************************************************************)
(* The request threads.  A thread is "idle" between requests; the other    *)
(* positions are the statements of the handler and of the tracker method   *)
(* it is in.                                                               *)
(***************************************************************************)
NoCookie == 0
Cookies == 1 .. NumClients
\* request.json.get('server'): no value, a label, or the empty text
Servers == {NULL, Text("s1"), Text("")}

\* a generator that hands out the same token again
Uuid4Repeated == NumClients + 1

\* bodies of POST /health and /keepalive: a JSON object, no body (and no JSON
\* content type), or a JSON content type with a text that does not parse
HealthBodies ==
    {[kind |-> "object", server |-> s] : s \in Servers}
        \cup {[kind |-> "missing"], [kind |-> "malformed"]}

\* server = None; try: if request.is_json and request.json: server =
\* request.json.get('server'); except Exception: (warning): request.json
\* raises BadRequest for the text that does not parse
ParseServer(b) == IF b.kind = "object" THEN b.server ELSE NULL

\* str(uuid.uuid4()): a token no request has carried or received
Uuid4 == NumClients + nreq + 1

\* values of days_to_keep in the body of /cleanup: an integer, a number with
\* a fraction (days + 1/2), or a text
JsonInt(n) == [type |-> "int", days |-> n]
JsonHalf(n) == [type |-> "float", days |-> n]
JsonText == [type |-> "str"]
DaysToKeepInputs ==
    {JsonInt(-1), JsonInt(0), JsonInt(DefaultDaysToKeep), JsonHalf(0), JsonText}

\* bodies of POST /cleanup
CleanupBodies ==
    {[kind |-> "object", days_to_keep |-> v] : v \in DaysToKeepInputs}
        \cup {[kind |-> "missing"], [kind |-> "malformed"]}

\* request.json raised inside the try of cleanup_data
JsonRaised == [type |-> "raised"]

\* request.json.get('days_to_keep', 90) if request.json else 90: the outcomes.
\* request.json raises BadRequest for a text that does not parse; for a
\* request without JSON content type it is None in Flask before 2.1 and
\* raises in the later versions
ParseDaysToKeep(b) ==
    IF b.kind = "object" THEN {b.days_to_keep}
    ELSE IF b.kind = "malformed" THEN {JsonRaised}
    ELSE {JsonInt(DefaultDaysToKeep), JsonRaised}

\* app.run serves every request in a thread of its own; the threads are
\* numbered in the order their requests arrive
Accepting(t) ==
    /\ pc[Main] = "running"
    /\ pc[t] = "idle"
    /\ t = nreq + 1
    /\ nreq' = nreq + 1

\* POST /health, POST /keepalive: health_check up to the first statements of
\* track_user_activity: now = datetime.now(); date_only = now.date()
HealthRequest(t) ==
    /\ Accepting(t)
    /\ \E cookie \in Cookies \cup {NoCookie}, b \in HealthBodies :
          req' = [req EXCEPT ![t] =
                     [kind |-> "health", body |-> b.kind, cookie |-> cookie,
                      server |-> ParseServer(b),
                      client_id |-> IF cookie = NoCookie THEN Uuid4 ELSE cookie,
                      new_client |-> cookie = NoCookie]]
    /\ now' = [now EXCEPT ![t] = clock]
    /\ Goto(t, "track_lock")
    /\ UNCHANGED <<db, journal, lock, clock, today, out, stats, entry, orig, restarts, calls>>

TrackEnter(t) ==
    /\ pc[t] = "track_lock"
    /\ Acquire(t)
    /\ Goto(t, "track_insert")
    /\ UNCHANGED <<db, journal, clock, req, now, today, out, stats, orig, nreq, restarts, calls>>

TrackInsert(t) ==
    /\ pc[t] = "track_insert"
    /\ journal' = Begin
    /\ db' = InsertOrIgnore(db, req[t].client_id, req[t].server, now[t], DateOf(now[t]))
    /\ Goto(t, "track_update")
    /\ UNCHANGED <<lock, clock, req, now, today, out, stats, entry, orig, nreq, restarts, calls>>

TrackUpdate(t) ==
    /\ pc[t] = "track_update"
    /\ journal' = Begin
    /\ db' = UpdateTimestamp(db, req[t].client_id, DateOf(now[t]), req[t].server, now[t])
    /\ Goto(t, "track_commit")
    /\ UNCHANGED <<lock, clock, req, now, today, out, stats, entry, orig, nreq, restarts, calls>>

\* get_db after the yield: conn.commit(), conn.close()
Commit(t, p, result) ==
    /\ pc[t] = p
    /\ journal' = <<>>
    /\ out' = [out EXCEPT ![t] = result]
    /\ UNCHANGED <<db, lock, clock, req, now, today, stats, entry, orig, nreq, restarts, calls>>

\* get_db when the block raises: conn.rollback(), conn.close(), raise; the
\* method's except sqlite3.Error then makes `result` its outcome
Rollback(t, ps, result) ==
    /\ pc[t] \in ps
    /\ db' = RolledBack
    /\ journal' = <<>>
    /\ out' = [out EXCEPT ![t] = result]
    /\ UNCHANGED <<lock, clock, req, now, today, stats, entry, orig, nreq, restarts, calls>>

\* the with db_lock block ends
Release(t, p) ==
    /\ pc[t] = p
    /\ lock' = NoThread
    /\ entry' = <<>>

TrackCommit(t) ==
    /\ Commit(t, "track_commit", [op |-> "track_user_activity", ok |-> TRUE])
    /\ Goto(t, "track_unlock")

\* track_user_activity without its except clause: the error leaves the method
\* and health_check, and Flask answers 500
TrackRaises(t) ==
    /\ Rollback(t, {"track_insert", "track_update", "track_commit"},
                [op |-> "track_user_activity", ok |-> FALSE])
    /\ Goto(t, "health_raised")

\* a statement (or the commit) of track_user_activity raises sqlite3.Error
TrackFails(t) ==
    /\ Rollback(t, {"track_insert", "track_update", "track_commit"},
                [op |-> "track_user_activity", ok |-> FALSE])
    /\ Goto(t, "track_unlock")

TrackLeave(t) ==
    /\ Release(t, "track_unlock")
    /\ Goto(t, "get_active_users")
    /\ UNCHANGED <<db, journal, clock, req, now, today, out, stats, orig, nreq, restarts, calls>>

\* today = datetime.now().date(); month_ago = today - timedelta(days=30)
ActiveUsersToday(t) ==
    /\ pc[t] = "get_active_users"
    /\ today' = [today EXCEPT ![t] = DateOf(clock)]
    /\ Goto(t, "active_users_lock")
    /\ UNCHANGED <<db, journal, lock, clock, req, now, out, stats, entry, orig, nreq, restarts, calls>>

ActiveUsersEnter(t) ==
    /\ pc[t] = "active_users_lock"
    /\ Acquire(t)
    /\ Goto(t, "active_users_query")
    /\ UNCHANGED <<db, journal, clock, req, now, today, out, stats, orig, nreq, restarts, calls>>

\* the four SELECTs, the result dictionary, commit and close
ActiveUsersQuery(t) ==
    /\ pc[t] = "active_users_query"
    /\ \E r \in ActiveUsersResults(db.rows, today[t]) : Commit(t, "active_users_query", r)
    /\ Goto(t, "active_users_unlock")

ActiveUsersFails(t) ==
    /\ Rollback(t, {"active_users_query"}, ActiveUsersZero)
    /\ Goto(t, "active_users_unlock")

\* the response of /health: status, new_client, the counts; the cookie is
\* set when the client is new
HealthResponse(t) ==
    [status |-> 200, body |-> "healthy", new_client |-> req[t].new_client,
     counts |-> out[t],
     set_cookie |-> IF req[t].new_client THEN req[t].client_id ELSE NoCookie]

\* the response of /stats
StatsResponse(t) ==
    [status |-> 200, success |-> TRUE, stats |-> stats[t], counts |-> out[t],
     timestamp |-> clock]

\* the handler's locals are dropped when it has returned its response
Return(t) ==
    /\ Goto(t, "done")
    /\ req' = [req EXCEPT ![t] = NoReq]
    /\ now' = [now EXCEPT ![t] = Clock0]
    /\ today' = [today EXCEPT ![t] = DateOf(Clock0)]
    /\ out' = [out EXCEPT ![t] = NoOut]
    /\ stats' = [stats EXCEPT ![t] = NoOut]

\* get_active_users returns to health_check or get_stats, which returns
\* HealthResponse(t) or StatsResponse(t)
ActiveUsersLeave(t) ==
    /\ Release(t, "active_users_unlock")
    /\ Return(t)
    /\ UNCHANGED <<db, journal, clock, orig, nreq, restarts, calls>>

\* GET /stats: get_stats up to the first tracker call
StatsRequest(t) ==
    /\ Accepting(t)
    /\ req' = [req EXCEPT ![t] = [kind |-> "stats"]]
    /\ Goto(t, "user_stats_lock")
    /\ UNCHANGED <<db, journal, lock, clock, now, today, out, stats, entry, orig, restarts, calls>>

UserStatsEnter(t) ==
    /\ pc[t] = "user_stats_lock"
    /\ Acquire(t)
    /\ Goto(t, "user_stats_query")
    /\ UNCHANGED <<db, journal, clock, req, now, today, out, stats, orig, nreq, restarts, calls>>

\* the two SELECTs (week_ago is read from the clock between them)
UserStatsQuery(t) ==
    /\ pc[t] = "user_stats_query"
    /\ Commit(t, "user_stats_query", UserStats(db.rows, DateOf(clock)))
    /\ Goto(t, "user_stats_unlock")

UserStatsFails(t) ==
    /\ Rollback(t, {"user_stats_query"}, UserStatsZero)
    /\ Goto(t, "user_stats_unlock")

UserStatsLeave(t) ==
    /\ Release(t, "user_stats_unlock")
    /\ stats' = [stats EXCEPT ![t] = out[t]]
    /\ Goto(t, "get_active_users")
    /\ UNCHANGED <<db, journal, clock, req, now, today, out, orig, nreq, restarts, calls>>

\* cutoff_date = datetime.now().date() - timedelta(days=days_to_keep)
CutoffDate(day, v) == day - v.days

\* POST /cleanup: cleanup_data up to the first statement of cleanup_old_data,
\* where timedelta raises TypeError for a text
CleanupRequest(t) ==
    /\ Accepting(t)
    /\ today' = [today EXCEPT ![t] = DateOf(clock)]
    /\ \E b \in CleanupBodies :
          \E v \in ParseDaysToKeep(b) :
              /\ req' = [req EXCEPT ![t] =
                            [kind |-> "cleanup", body |-> b.kind, days_to_keep |-> v]]
              /\ Goto(t, IF v.type \in {"str", "raised"}
                         THEN "cleanup_raised" ELSE "cleanup_lock")
    /\ UNCHANGED <<db, journal, lock, clock, now, out, stats, entry, orig, restarts, calls>>

\* except Exception in cleanup_data: the 500 response
CleanupErrorResponse == [status |-> 500, success |-> FALSE]

CleanupRaised(t) ==
    /\ pc[t] = "cleanup_raised"
    /\ Return(t)
    /\ UNCHANGED <<db, journal, lock, clock, entry, orig, nreq, restarts, calls>>

CleanupEnter(t) ==
    /\ pc[t] = "cleanup_lock"
    /\ Acquire(t)
    /\ Goto(t, "cleanup_delete")
    /\ UNCHANGED <<db, journal, clock, req, now, today, out, stats, orig, nreq, restarts, calls>>

\* DELETE ...; deleted_count = result.rowcount
CleanupDelete(t) ==
    /\ pc[t] = "cleanup_delete"
    /\ journal' = Begin
    /\ db' = DeleteOlderThan(db, CutoffDate(today[t], req[t].days_to_keep))
    /\ out' = [out EXCEPT ![t] = [op |-> "cleanup_old_data", ok |-> TRUE,
                                  deleted_count |-> Len(db.rows) - Len(db'.rows)]]
    /\ Goto(t, "cleanup_commit")
    /\ UNCHANGED <<lock, clock, req, now, today, stats, entry, orig, nreq, restarts, calls>>

CleanupCommit(t) ==
    /\ Commit(t, "cleanup_commit", out[t])
    /\ Goto(t, "cleanup_unlock")

\* except sqlite3.Error: return 0
CleanupFails(t) ==
    /\ Rollback(t, {"cleanup_delete", "cleanup_commit"},
                [op |-> "cleanup_old_data", ok |-> FALSE, deleted_count |-> 0])
    /\ Goto(t, "cleanup_unlock")

\* the response of /cleanup after cleanup_old_data returned
CleanupResponse(t) ==
    [status |-> 200, success |-> TRUE, deleted_count |-> out[t].deleted_count]

\* cleanup_old_data returns to cleanup_data, which returns CleanupResponse(t)
CleanupLeave(t) ==
    /\ Release(t, "cleanup_unlock")
    /\ Return(t)
    /\ UNCHANGED <<db, journal, clock, orig, nreq, restarts, calls>>

Serve(t) ==
    \/ HealthRequest(t) \/ TrackEnter(t) \/ TrackInsert(t)
    \/ TrackUpdate(t) \/ TrackCommit(t) \/ TrackFails(t) \/ TrackLeave(t)
    \/ ActiveUsersToday(t) \/ ActiveUsersEnter(t) \/ ActiveUsersQuery(t)
    \/ ActiveUsersFails(t) \/ ActiveUsersLeave(t)
    \/ StatsRequest(t) \/ UserStatsEnter(t) \/ UserStatsQuery(t)
    \/ UserStatsFails(t) \/ UserStatsLeave(t)
    \/ CleanupRequest(t) \/ CleanupEnter(t) \/ CleanupDelete(t)
    \/ CleanupCommit(t) \/ CleanupFails(t) \/ CleanupLeave(t) \/ CleanupRaised(t)

\* the wall clock advances
Tick ==
    /\ pc[Main] = "running"
    /\ clock < Clock0 + MaxTicks
    /\ clock' = clock + 1
    /\ UNCHANGED <<db, journal, lock, pc, req, now, today, out, stats, entry, orig, nreq, restarts, calls>>

Boot ==
    \/ InitEnter \/ InitCreateTable \/ MigrateTableInfo \/ MigrateCreateNew
    \/ MigrateCopy \/ MigrateDrop \/ MigrateRename \/ MigrateIndexes
    \/ InitCreateIndexes \/ InitCommit \/ InitStatementFails \/ InitCrash

\* The service: one start-up, then the request threads.
Next == Boot \/ Tick \/ \E t \in Workers : Serve(t)

Spec == Init /\ [][Next]_vars

\* Start-up alone, with restarts of the process.
NextStartup == Boot \/ Restart

SpecStartup == Init /\ [][NextStartup]_vars

(***************************************************************************)
(* The service with the example client (src/client_example.py): client     *)
(* sessions post /health one call after the other, a session that was      *)
(* answered with a cookie sends it back, a new session has none.  No       *)
(* statement fails while the calls are served.                             *)
(***************************************************************************)
\* the calls come one at a time, so one request thread at a time serves them
SessionThread == 1

Tokens == {calls[i].token : i \in 1 .. Len(calls)}

\* session.post(base_url + '/health') and health_check up to the first
\* statements of track_user_activity
SessionHealthRequest ==
    /\ pc[Main] = "running"
    /\ \A t \in Workers : pc[t] \in {"idle", "done"}
    /\ Len(calls) < MaxCalls
    /\ nreq' = nreq + 1
    /\ \E cookie \in Tokens \cup {NoCookie}, b \in HealthBodies :
          LET c == IF cookie = NoCookie THEN Uuid4 ELSE cookie
          IN  /\ req' = [req EXCEPT ![SessionThread] =
                            [kind |-> "health", body |-> b.kind, cookie |-> cookie,
                             server |-> ParseServer(b),
                             client_id |-> c, new_client |-> cookie = NoCookie]]
              /\ calls' = Append(calls, [token |-> c, day |-> DateOf(clock)])
    /\ now' = [now EXCEPT ![SessionThread] = clock]
    /\ Goto(SessionThread, "track_lock")
    /\ UNCHANGED <<db, journal, lock, clock, today, out, stats, entry, orig, restarts>>

SessionServe ==
    \/ TrackEnter(SessionThread) \/ TrackInsert(SessionThread)
    \/ TrackUpdate(SessionThread) \/ TrackCommit(SessionThread)
    \/ TrackLeave(SessionThread) \/ ActiveUsersToday(SessionThread)
    \/ ActiveUsersEnter(SessionThread) \/ ActiveUsersQuery(SessionThread)
    \/ ActiveUsersLeave(SessionThread)

NextClient == Boot \/ Tick \/ SessionHealthRequest \/ SessionServe

SpecClient == Init /\ [][NextClient]_vars

(***************************************************************************)
(* Properties.                                                             *)
(***************************************************************************)
Rows == db.rows
RowIdx == 1 .. Len(db.rows)
RowSet(rs) == {rs[i] : i \in 1 .. Len(rs)}

SameKey(r, q) ==
    r.client_id = q.client_id /\ r.date_only = q.date_only /\ r.server = q.server

\* C1: the store never holds two records with the same (client_id, day,
\* dimension) triple, the absent dimension included.
C1_OneRecordPerTriple ==
    db.schema = "new" =>
        \A i, j \in RowIdx : SameKey(Rows[i], Rows[j]) => i = j

\* the thread has returned from a track_user_activity that did not fail and
\* has not yet run the queries of get_active_users
Tracked(t) ==
    /\ pc[t] \in {"get_active_users", "active_users_lock", "active_users_query"}
    /\ req[t].kind = "health"
    /\ out[t] = [op |-> "track_user_activity", ok |-> TRUE]

SameVisitKey(t, u) ==
    /\ req[t].client_id = req[u].client_id
    /\ req[t].server = req[u].server
    /\ DateOf(now[t]) = DateOf(now[u])

\* C2: when every request so far is a recordVisit for one key, two or more of
\* them, and all have completed, the key's record carries the latest instant
\* any of them read.
C2_LastSeenIsLatestRead ==
    \A t \in Workers :
        ( /\ Tracked(t)
          /\ \E u \in Workers \ {t} : Tracked(u)
          /\ \A u \in Workers : pc[u] = "idle" \/ (Tracked(u) /\ SameVisitKey(t, u)) )
        => \A i \in RowIdx :
              UpdateMatches(Rows[i], req[t].client_id, DateOf(now[t]), req[t].server)
              => \A u \in Workers : Tracked(u) => Rows[i].timestamp >= now[u]

OrigRows == RowSet(orig.rows)

IsCopyOf(r, o) ==
    /\ r.id = o.id
    /\ r.client_id = o.client_id
    /\ r.timestamp = o.timestamp
    /\ r.date_only = o.date_only
    /\ r.server = NULL

\* C3: after migrate of a populated table without the dimension column every
\* original record is there exactly once, unchanged and with dimension
\* absent, there is no other record, and a later recordVisit for the key of
\* an original record adds no second row for that key.
C3_MigrationKeepsRecords ==
    (orig.schema = "old" /\ pc[Main] = "running") =>
        /\ nreq = 0 =>
              /\ Len(Rows) = Len(orig.rows)
              /\ \A o \in OrigRows : \E i \in RowIdx : IsCopyOf(Rows[i], o)
        /\ \A o \in OrigRows :
              Cardinality({i \in RowIdx : /\ Rows[i].client_id = o.client_id
                                          /\ Rows[i].date_only = o.date_only
                                          /\ Rows[i].server = NULL}) <= 1

Records(d) ==
    {[id |-> r.id, client_id |-> r.client_id, timestamp |-> r.timestamp,
      date_only |-> r.date_only] : r \in RowSet(d.rows)}

CompleteOldSchema ==
    /\ db.schema = "old"
    /\ ~db.new_exists
    /\ Records(db) = Records(orig)

CompleteNewSchema ==
    /\ db.schema = "new"
    /\ ~db.new_exists
    /\ Records(db) = Records(orig)
    /\ \A r \in RowSet(db.rows) : r.server = NULL \/ orig.schema = "new"

\* C4: whenever start-up stops in the middle (a statement fails or the
\* process is killed), the file holds the complete old table or the complete
\* new table with all the rows, and never both tables or none; and a start-up
\* that follows does not fail on what the interrupted one left behind.
C4_MigrationIsAtomic ==
    pc[Main] = "exited" =>
        /\ orig.schema # "none" => (CompleteOldSchema \/ CompleteNewSchema)
        /\ out[Main].error \in {"storage error", "killed"}

StorePcs ==
    InitSteps \cup
    {"track_insert", "track_update", "track_commit", "track_unlock",
     "active_users_query", "active_users_unlock",
     "user_stats_query", "user_stats_unlock",
     "cleanup_delete", "cleanup_commit", "cleanup_unlock"}

InStore(t) == pc[t] \in StorePcs

\* C5: at most one thread at a time is inside a store operation, and it is
\* the holder of the lock.
C5_OneThreadInStore ==
    \A t, u \in {Main} \cup Workers :
        (InStore(t) /\ InStore(u)) => (t = u /\ lock = t)

\* a thread is inside the store while another one waits for the lock
C5_Witness ==
    \E t, u \in Workers :
        /\ pc[t] = "track_update"
        /\ pc[u] \in {"track_lock", "active_users_lock", "user_stats_lock", "cleanup_lock"}

Failed(t) ==
    /\ pc[t] \in {"track_unlock", "active_users_unlock", "user_stats_unlock", "cleanup_unlock"}
    /\ ~out[t].ok

\* C6: when a statement raised inside a store operation, the records are
\* those of before the operation by the time the lock is released: for the
\* request threads while they still hold the lock, for init_database once
\* it has given up.
C6_FailedOperationChangesNothing ==
    /\ \A t \in Workers : Failed(t) => (journal = <<>> /\ db = entry[1])
    /\ pc[Main] = "exited" => (lock = NoThread /\ Records(db) = Records(orig))

Answered(t) == pc[t] = "active_users_unlock" /\ out[t].ok

ClientsOn(day) == {Rows[i].client_id : i \in {j \in RowIdx : Rows[j].date_only = day}}

\* C7: the daily count get_active_users returns is the number of distinct
\* clients that have a record dated the today it read.
C7_DailyCountIsDistinctClientsToday ==
    \A t \in Workers :
        Answered(t) => out[t].daily_active_users = Cardinality(ClientsOn(today[t]))

\* a client with two records today and records of other days in the table
C7_Witness ==
    \E t \in Workers :
        /\ Answered(t)
        /\ out[t].daily_active_users >= 1
        /\ \E i, j \in RowIdx :
              /\ i # j
              /\ Rows[i].client_id = Rows[j].client_id
              /\ Rows[i].date_only = today[t]
              /\ Rows[j].date_only = today[t]
        /\ \E i \in RowIdx : Rows[i].date_only # today[t]

ClientsBetween(lo, hi) ==
    {Rows[i].client_id : i \in {j \in RowIdx : lo <= Rows[j].date_only /\ Rows[j].date_only <= hi}}

ClientsFrom(lo) == {Rows[i].client_id : i \in {j \in RowIdx : lo <= Rows[j].date_only}}

\* C8 as claimed: the monthly count is the number of distinct clients with a
\* record dated within the 30 days up to and including the today the call
\* read.
C8_MonthlyCountIsLast30Days ==
    \A t \in Workers :
        Answered(t) =>
            out[t].monthly_active_users = Cardinality(ClientsBetween(today[t] - 30, today[t]))

\* C8 as amended: the monthly count is the number of distinct clients with a
\* record dated on or after 30 days before the today the call read; a record
\* dated after that today counts as well.
C8_MonthlyCountIsSince30DaysAgo ==
    \A t \in Workers :
        Answered(t) => out[t].monthly_active_users = Cardinality(ClientsFrom(today[t] - 30))

OnlyRecordOn(c, day) ==
    /\ \E i \in RowIdx : Rows[i].client_id = c
    /\ \A i \in RowIdx : Rows[i].client_id = c => Rows[i].date_only = day

\* a client whose only record is 30 days old is counted, one whose only
\* record is 31 days old is not
C8_Witness ==
    \E t \in Workers :
        /\ Answered(t)
        /\ \E c, e \in {Rows[i].client_id : i \in RowIdx} :
              /\ OnlyRecordOn(c, today[t] - 30)
              /\ OnlyRecordOn(e, today[t] - 31)
              /\ out[t].monthly_active_users = Cardinality(ClientsFrom(today[t] - 29)) + 1

CleanedUp(t) == pc[t] = "cleanup_unlock"

RetentionDays(t) == req[t].days_to_keep.days

ValidRetention(t) == req[t].days_to_keep.type = "int" /\ RetentionDays(t) >= 0

\* C9: for a retention of r >= 0 days, cleanup (when its DELETE and commit
\* succeed) removes the records dated before today - r and no other, a
\* record dated today - r or later stays, and the count it returns is the
\* number of records it removed.
C9_CleanupDeletesOlderThanCutoff ==
    \A t \in Workers :
        (CleanedUp(t) /\ ValidRetention(t)) =>
            LET before == RowSet(entry[1].rows)
                after == RowSet(db.rows)
            IN  /\ after \subseteq before
                /\ out[t].ok =>
                      \A r \in before :
                          r \in after <=> r.date_only >= today[t] - RetentionDays(t)
                /\ out[t].deleted_count = Cardinality(before) - Cardinality(after)
                /\ CleanupResponse(t).deleted_count = Cardinality(before \ after)

\* cleanup(90) has removed a record 91 days old and kept one exactly 90 days old
C9_Witness ==
    \E t \in Workers :
        /\ CleanedUp(t)
        /\ out[t].ok
        /\ req[t].days_to_keep = JsonInt(90)
        /\ out[t].deleted_count >= 1
        /\ \E r \in RowSet(db.rows) : r.date_only = today[t] - 90
        /\ \E r \in RowSet(entry[1].rows) : r.date_only = today[t] - 91

\* C10: a cleanup request whose retention is negative or no integer deletes
\* no record and is not answered as a successful cleanup.
C10_InvalidRetentionIsRejected ==
    \A t \in Workers :
        (req[t].kind = "cleanup" /\ ~ValidRetention(t)) =>
            /\ lock = t => RowSet(db.rows) = RowSet(entry[1].rows)
            /\ pc[t] # "cleanup_unlock"

\* what /cleanup answers when the DELETE ran and matched no record
NothingToDelete == [status |-> 200, success |-> TRUE, deleted_count |-> 0]

\* C11: a cleanup whose DELETE or commit failed is not reported like a
\* cleanup that found nothing to delete: neither cleanup_old_data's return
\* value nor the /cleanup response is the one of "zero deleted".
C11_FailedCleanupIsDistinguishable ==
    \A t \in Workers :
        (CleanedUp(t) /\ ~out[t].ok) =>
            /\ out[t].deleted_count # NothingToDelete.deleted_count
            /\ CleanupResponse(t) # NothingToDelete

ReadFailed(t) == pc[t] = "active_users_unlock" /\ ~out[t].ok

\* C12: when a query of get_active_users fails, the method returns zero
\* counts and empty per-server lists, and the /health or /stats request that
\* called it answers with its success response carrying that result.
C12_FailedReadIsMasked ==
    \A t \in Workers :
        ReadFailed(t) =>
            /\ out[t].daily_active_users = 0
            /\ out[t].monthly_active_users = 0
            /\ out[t].daily_by_server = <<>>
            /\ out[t].monthly_by_server = <<>>
            /\ req[t].kind \in {"health", "stats"}
            /\ req[t].kind = "health" =>
                  /\ HealthResponse(t).status = 200
                  /\ HealthResponse(t).body = "healthy"
                  /\ HealthResponse(t).counts.daily_active_users = 0
            /\ req[t].kind = "stats" =>
                  /\ StatsResponse(t).status = 200
                  /\ StatsResponse(t).success
                  /\ StatsResponse(t).counts.monthly_active_users = 0

\* the read of a /health request failed although its own visit is recorded
C12_Witness ==
    \E t \in Workers :
        /\ ReadFailed(t)
        /\ req[t].kind = "health"
        /\ \E i \in RowIdx : /\ Rows[i].client_id = req[t].client_id
                              /\ Rows[i].date_only = today[t]

\* the read of a /stats request failed after its get_user_stats succeeded
C12_WitnessStats ==
    \E t \in Workers :
        /\ ReadFailed(t)
        /\ req[t].kind = "stats"
        /\ stats[t].ok
        /\ stats[t].total_unique_users >= 1

TrackPcs == {"track_insert", "track_update", "track_commit"}

TrackFailed(t) ==
    req[t].kind = "health" /\ out[t] = [op |-> "track_user_activity", ok |-> FALSE]

\* C13: track_user_activity always returns to health_check: from inside it a
\* thread only goes on to its next statement or to the end of the method,
\* whether an INSERT hits an existing key (the step changes nothing and goes
\* on to the UPDATE) or a statement fails; from the end of the method the
\* thread goes on to get_active_users, and every /health request that gets
\* as far as its response answers 200 'healthy'.
C13_TrackNeverRaises ==
    /\ [][\A t \in Workers :
             /\ pc[t] \in TrackPcs => pc'[t] \in TrackPcs \cup {"track_unlock"}
             /\ (pc[t] = "track_insert" /\ pc'[t] # pc[t] /\ pc'[t] # "track_update")
                    => TrackFailed(t)'
             /\ ( /\ pc[t] = "track_insert"
                  /\ pc'[t] = "track_update"
                  /\ UniqueConflict(db.rows, req[t].client_id, req[t].server, DateOf(now[t])) )
                    => db'.rows = db.rows
             /\ pc[t] = "track_unlock" => pc'[t] \in {"track_unlock", "get_active_users"}]_vars
    /\ [](\A t \in Workers :
             (req[t].kind = "health" /\ pc[t] = "active_users_unlock") =>
                 (HealthResponse(t).status = 200 /\ HealthResponse(t).body = "healthy"))

\* a track_user_activity whose statement failed has returned to health_check,
\* which is about to read the counts, while the key it was recording is in
\* the table already
C13_Witness ==
    \E t \in Workers :
        /\ TrackFailed(t)
        /\ pc[t] = "get_active_users"
        /\ UniqueConflict(db.rows, req[t].client_id, req[t].server, DateOf(now[t]))

RecordOf(t, i) ==
    /\ Rows[i].client_id = req[t].client_id
    /\ Rows[i].date_only = DateOf(now[t])
    /\ Rows[i].server = req[t].server

TwoTags(t, u) ==
    /\ t # u
    /\ Tracked(t)
    /\ Tracked(u)
    /\ req[t].client_id = req[u].client_id
    /\ DateOf(now[t]) = DateOf(now[u])
    /\ req[t].server # req[u].server
    /\ \A w \in Workers \ {t, u} : pc[w] = "idle"

\* C14: when the requests so far are two completed recordVisits of one
\* client on one day with two different tags (two labels, or a label and no
\* tag), the table holds a record for each of the two tags, two different
\* rows.
C14_TwoTagsTwoRecords ==
    \A t, u \in Workers :
        TwoTags(t, u) =>
            \E i, j \in RowIdx : i # j /\ RecordOf(t, i) /\ RecordOf(u, j)

\* on a table that was empty, one client has visited with a label and with
\* no tag on the same day, and the table holds exactly the two records
C14_Witness ==
    \E t, u \in Workers :
        /\ TwoTags(t, u)
        /\ req[t].server = NULL
        /\ req[u].server = Text("s1")
        /\ Len(Rows) = 2

\* the same for two labels
C14_WitnessLabels ==
    \E t, u \in Workers :
        /\ TwoTags(t, u)
        /\ req[t].server = Text("")
        /\ req[u].server = Text("s1")
        /\ Len(Rows) = 2

\* C15: daily_breakdown of get_user_stats has one entry for each day of
\* [today - 6, today] that has a record and no other entry, each entry has
\* the number of distinct clients of its day, and the entries are ordered
\* newest day first (today is the date the method reads for week_ago).
C15_DailyBreakdownIsLast7Days ==
    [][\A t \in Workers :
          (pc[t] = "user_stats_query" /\ pc'[t] = "user_stats_unlock" /\ out'[t].ok) =>
              LET b == out'[t].daily_breakdown
                  day == DateOf(clock)
                  days == {d \in {Rows[i].date_only : i \in RowIdx} :
                              day - 6 <= d /\ d <= day}
              IN  /\ {b[i].date : i \in 1 .. Len(b)} = days
                  /\ Len(b) = Cardinality(days)
                  /\ \A i \in 1 .. Len(b) : b[i].users = Cardinality(ClientsOn(b[i].date))
                  /\ \A i, j \in 1 .. Len(b) : i < j => b[i].date > b[j].date]_vars

Sentinel == "unknown"

NoRepeatedLabel(l) ==
    \A i, j \in 1 .. Len(l) : l[i].server = l[j].server => i = j

AbsentClients(R) == {r.client_id : r \in {x \in R : x.server = NULL}}

\* every entry under the sentinel label counts the records without a server,
\* and only those
SentinelIsAbsent(l, R) ==
    \A i \in 1 .. Len(l) :
        l[i].server = Sentinel => l[i].users = Cardinality(AbsentClients(R))

\* C16: in daily_by_server and monthly_by_server no two entries carry the
\* same label, and the entry under the sentinel label counts exactly the
\* records whose server is absent: a record with a concrete label, the empty
\* text included, is not reported under it.
C16_AbsentIsItsOwnGroup ==
    \A t \in Workers :
        Answered(t) =>
            /\ NoRepeatedLabel(out[t].daily_by_server)
            /\ NoRepeatedLabel(out[t].monthly_by_server)
            /\ SentinelIsAbsent(out[t].daily_by_server,
                                {r \in RowSet(Rows) : r.date_only = today[t]})
            /\ SentinelIsAbsent(out[t].monthly_by_server,
                                {r \in RowSet(Rows) : r.date_only >= today[t] - 30})

HasRecord(c) == \E i \in RowIdx : Rows[i].client_id = c

\* C17: for every /health or /keepalive request, new_client is true exactly
\* when the request carries no cookie.  Then the token is a fresh one (no
\* cookie value, no other request's token, and in no record before this
\* request's recordVisit), it is the token recordVisit records, and the
\* response sets it as the cookie.  Otherwise the cookie's token is the
\* one recorded and the response sets no cookie.
C17_NewClientIffNoCookie ==
    \A t \in Workers :
        req[t].kind = "health" =>
            /\ req[t].new_client <=> req[t].cookie = NoCookie
            /\ req[t].cookie # NoCookie => req[t].client_id = req[t].cookie
            /\ req[t].cookie = NoCookie =>
                  /\ req[t].client_id \notin Cookies \cup {NoCookie}
                  /\ \A u \in Workers \ {t} :
                        req[u].kind = "health" => req[u].client_id # req[t].client_id
                  /\ pc[t] \in {"track_lock", "track_insert"} => ~HasRecord(req[t].client_id)
            /\ (pc[t] = "track_unlock" /\ out[t].ok) =>
                  \E i \in RowIdx : /\ Rows[i].client_id = req[t].client_id
                                    /\ Rows[i].server = req[t].server
                                    /\ Rows[i].timestamp = now[t]
            /\ pc[t] = "active_users_unlock" =>
                  /\ HealthResponse(t).new_client <=> req[t].cookie = NoCookie
                  /\ HealthResponse(t).set_cookie =
                        (IF req[t].cookie = NoCookie THEN req[t].client_id ELSE NoCookie)

\* a request without cookie is answered with new_client and the cookie of the
\* token its visit is recorded under, while a request that carries a cookie
\* has its visit recorded under that token
C17_Witness ==
    \E t, u \in Workers :
        /\ req[t].kind = "health"
        /\ req[t].cookie = NoCookie
        /\ pc[t] = "active_users_unlock"
        /\ HealthResponse(t).new_client
        /\ HealthResponse(t).set_cookie = req[t].client_id
        /\ HasRecord(HealthResponse(t).set_cookie)
        /\ req[u].kind = "health"
        /\ req[u].cookie \in Cookies
        /\ pc[u] = "get_active_users"
        /\ ~HealthResponse(u).new_client
        /\ HealthResponse(u).set_cookie = NoCookie
        /\ HasRecord(req[u].cookie)

SessionAnswered ==
    /\ pc[SessionThread] = "active_users_unlock"
    /\ req[SessionThread].kind = "health"
    /\ calls # <<>>

SameDayCalls == \A i \in 1 .. Len(calls) : calls[i].day = today[SessionThread]

\* C18: on a store that was empty at start-up, the daily_active_users of a
\* /health response is the number of distinct tokens the calls up to and
\* including this one have used, when all of them were made on the day the
\* response is computed for.
C18_DailyCountFollowsTokens ==
    (SessionAnswered /\ orig = EmptyDb /\ SameDayCalls) =>
        HealthResponse(SessionThread).counts.daily_active_users = Cardinality(Tokens)

\* the third call of a day: the first had no cookie, the second reused the
\* cookie of the first, the third has no cookie again and is told 2
C18_Witness ==
    /\ SessionAnswered
    /\ orig = EmptyDb
    /\ SameDayCalls
    /\ Len(calls) = 3
    /\ calls[1].token = calls[2].token
    /\ calls[3].token # calls[1].token
    /\ req[SessionThread].new_client
    /\ HealthResponse(SessionThread).counts.daily_active_users = 2

\* the second call of a day, reusing the cookie of the first, is told 1
C18_WitnessSecond ==
    /\ SessionAnswered
    /\ orig = EmptyDb
    /\ SameDayCalls
    /\ Len(calls) = 2
    /\ calls[1].token = calls[2].token
    /\ ~req[SessionThread].new_client
    /\ HealthResponse(SessionThread).counts.daily_active_users = 1

Defaulted(t) == req[t].kind \in {"health", "cleanup"} /\ req[t].body # "object"

\* C19: a request whose body is missing or does not parse is served with the
\* defaults and does not end in the handler's error response: /health and
\* /keepalive record the visit without server, /cleanup runs with the
\* retention of 90 days.
C19_BadBodyFallsBackToDefaults ==
    \A t \in Workers :
        Defaulted(t) =>
            /\ pc[t] # "cleanup_raised"
            /\ req[t].kind = "health" => req[t].server = NULL
            /\ req[t].kind = "cleanup" => req[t].days_to_keep = JsonInt(DefaultDaysToKeep)

\* the /health part of C19 alone: a missing or unparsable body gives server
\* = None and the request gets to its 200 response
C19_HealthBodyFallsBack ==
    \A t \in Workers :
        (Defaulted(t) /\ req[t].kind = "health") =>
            /\ req[t].server = NULL
            /\ pc[t] \in {"track_lock", "track_insert", "track_update", "track_commit",
                           "track_unlock", "get_active_users", "active_users_lock",
                           "active_users_query", "active_users_unlock"}
            /\ pc[t] = "active_users_unlock" => HealthResponse(t).status = 200

\* the table has the server column and the four indexes, and no table of an
\* unfinished migration is left
Initialized(d) == d.schema = "new" /\ ~d.new_exists /\ d.indexes = IndexSet(4)

InitSucceeded == out[Main] = [op |-> "init_database", error |-> "none"]

\* C20: init_database on a store that is initialized and migrated changes
\* nothing at any of its statements and does not fail by itself; a
\* completed init_database leaves an initialized store, and one that
\* follows a completed one changes nothing, so that two calls give the
\* store of one call.
C20_InitIsIdempotent ==
    /\ (pc[Main] \in InitSteps /\ Initialized(entry[1])) => db = entry[1]
    /\ (pc[Main] \in InitSteps /\ restarts >= 1 /\ InitSucceeded) => db = entry[1]
    /\ pc[Main] = "running" => Initialized(db)
    /\ (pc[Main] = "exited" /\ Initialized(db)) =>
          out[Main].error \in {"storage error", "killed"}

\* the second start-up on a table the first one migrated has run all its
\* statements, and the records are there
C20_Witness ==
    /\ pc[Main] = "init_commit"
    /\ restarts = 1
    /\ InitSucceeded
    /\ orig.schema = "old"
    /\ Initialized(entry[1])
    /\ Len(db.rows) = Len(orig.rows)
    /\ db.rows # <<>>

InTrack(t) == pc[t] \in {"track_update", "track_commit", "track_unlock"}

HasVisitKey(t, r) ==
    /\ r.client_id = req[t].client_id
    /\ r.date_only = DateOf(now[t])
    /\ r.server = req[t].server

RowWithId(rs, i) == CHOOSE r \in RowSet(rs) : r.id = i

Ids(rs) == {r.id : r \in RowSet(rs)}

\* C21: while track_user_activity(c, s) runs and when it ends, every record
\* that was there when it started is still there with its id, client_id,
\* day and server; the timestamp of a record differs only if its key is (c,
\* the day the call read, s); and at most one record is new, with that key.
C21_TrackChangesOnlyItsKey ==
    \A t \in Workers :
        InTrack(t) =>
            LET before == entry[1].rows
                after == db.rows
            IN  /\ Ids(before) \subseteq Ids(after)
                /\ Len(after) = Cardinality(Ids(after))
                /\ \A r \in RowSet(before) :
                      LET q == RowWithId(after, r.id)
                      IN  /\ q.client_id = r.client_id
                          /\ q.date_only = r.date_only
                          /\ q.server = r.server
                          /\ q.timestamp # r.timestamp =>
                                (HasVisitKey(t, r) /\ q.timestamp = now[t])
                /\ Cardinality(Ids(after) \ Ids(before)) <= 1
                /\ \A q \in RowSet(after) : q.id \notin Ids(before) => HasVisitKey(t, q)

\* a visit has stamped the existing record of its key, while a record of the
\* same client and day under another server, and one of another day, kept
\* their timestamps
C21_Witness ==
    \E t \in Workers :
        /\ pc[t] = "track_unlock"
        /\ out[t].ok
        /\ \E r \in RowSet(entry[1].rows) :
              /\ HasVisitKey(t, r)
              /\ RowWithId(db.rows, r.id).timestamp # r.timestamp
        /\ \E r \in RowSet(entry[1].rows) :
              /\ r.client_id = req[t].client_id
              /\ r.date_only = DateOf(now[t])
              /\ r.server # req[t].server
              /\ r \in RowSet(db.rows)
        /\ \E r \in RowSet(entry[1].rows) : r.date_only # DateOf(now[t])

\* the largest id the table had assigned when the process found it
OrigHighestId == Max2(orig.seq, MaxRowId(orig.rows))

\* C22: every record created since the process started has an id above
\* every id assigned before, those of records deleted before a migration
\* included; and a record created later has a larger id than one created
\* earlier.
C22_IdsNeverReused ==
    /\ \A r \in RowSet(db.rows) : r.id \in Ids(orig.rows) \/ r.id > OrigHighestId
    /\ \A i, j \in RowIdx : i < j => Rows[i].id < Rows[j].id

\* the part of C22 that does not involve a migration: on a table that had
\* the server column at start-up, new ids stay above every id assigned
\* before, whatever cleanup has deleted
C22_NoReuseWithoutMigration ==
    orig.schema # "old" => C22_IdsNeverReused

\* both tracker calls of a /stats request have returned without a failure
StatsAnswered(t) ==
    /\ pc[t] = "active_users_unlock"
    /\ req[t].kind = "stats"
    /\ stats[t].ok
    /\ out[t].ok

\* C23: in every /stats response whose two reads did not fail,
\* total_unique_users >= monthly_active_users >= daily_active_users.
C23_StatsFiguresAreConsistent ==
    \A t \in Workers :
        StatsAnswered(t) =>
            /\ StatsResponse(t).stats.total_unique_users
                  >= StatsResponse(t).counts.monthly_active_users
            /\ StatsResponse(t).counts.monthly_active_users
                  >= StatsResponse(t).counts.daily_active_users

\* the part of C23 that lies within one store operation: the two counts of
\* get_active_users
C23_MonthlyCoversDaily ==
    \A t \in Workers :
        Answered(t) => out[t].monthly_active_users >= out[t].daily_active_users

\* C24: a /health request whose recordVisit did not fail and whose
\* getActiveUsers does not fail is answered with daily_active_users >= 1
\* and monthly_active_users >= 1.
C24_HealthCountsItsCaller ==
    [][\A t \in Workers :
          ( /\ Tracked(t)
            /\ pc[t] = "active_users_query"
            /\ pc'[t] = "active_users_unlock"
            /\ out'[t].ok ) =>
              /\ HealthResponse(t)'.counts.daily_active_users >= 1
              /\ HealthResponse(t)'.counts.monthly_active_users >= 1]_vars

\* the same while no clock tick and no other request comes between the
\* request's arrival and its answer: the caller is counted
C24_CallerCountedWhenAlone ==
    [][\A t \in Workers :
          ( /\ Tracked(t)
            /\ pc[t] = "active_users_query"
            /\ pc'[t] = "active_users_unlock"
            /\ out'[t].ok
            /\ DateOf(now[t]) = today[t]
            /\ \A u \in Workers \ {t} : pc[u] = "idle" ) =>
              /\ HealthResponse(t)'.counts.daily_active_users >= 1
              /\ HealthResponse(t)'.counts.monthly_active_users >= 1]_vars

====
